---- MODULE Spec2Model ----
(***************************************************************************)
(* The AI code reviewer: the core functions of src/model.py and            *)
(* src/multi_language_features.py and the "Analyze Code" handler of        *)
(* src/app.py, with the Streamlit session state it writes.                 *)
(*                                                                         *)
(* A code string is a sequence of atoms.  An atom is either a run of word  *)
(* characters (a keyword or the identifier "x") or one non-word character  *)
(* (" ", "\n", "{").  Two adjacent word atoms read as one longer word, so  *)
(* a keyword atom is a whole-word match (\b...\b) only when neither        *)
(* neighbour is a word atom.                                               *)
(*                                                                         *)
(* Probabilities are integers in basis points (1/10000); percentages with  *)
(* one decimal are integers in tenths of a percent.                        *)
(***************************************************************************)
EXTENDS Integers, Sequences, FiniteSets, TLC

VARIABLES
    analysis_data,  \* st.session_state.analysis_data (app.py:23-24)
    history,        \* st.session_state.history (app.py:26-27)
    artifact,       \* what is stored at MODEL_PATH on disk (model.py:51)
    loads,          \* number of joblib.load(MODEL_PATH) calls made so far
    requests,       \* number of clicks on "Analyze Code" handled so far
    last,           \* the last click: its input, the calls made, its outcome
    call            \* a direct call of one core function: fn, arg, ret

vars == <<analysis_data, history, artifact, loads, requests, last, call>>

\* ------------------------------------------------------------------ bounds

\* longest code string enumerated atom by atom
MaxLen == 2
\* most repetitions of a "keyword + separator" unit in a generated code string
MaxRepeat == 6
\* most "Analyze Code" clicks in one session
MaxRequests == 2

\* ----------------------------------------------------------- python values

None == [py |-> "None"]

\* the outcome of a call: a returned value or a raised exception.
\* isException: whether the class derives from Exception (and not only from
\* BaseException).
Return(v) == [raised |-> FALSE, value |-> v]

Raise(cls, isException, msg) ==
    [raised |-> TRUE, cls |-> cls, isException |-> isException, msg |-> msg]

Min(a, b) == IF a <= b THEN a ELSE b

Max(a, b) == IF a >= b THEN a ELSE b

\* ------------------------------------------------------------ code strings

WordAtoms ==
    {"for", "while", "def", "public", "private", "protected", "int", "void",
     "float", "double", "string", "function", "try", "catch", "except", "x"}

Whitespace == {" ", "\n"}

\* the atoms code strings are enumerated over
Alphabet == {"for", "while", "def", "public", "int", "function", "try", "x",
             " ", "\n", "{"}

SeqsUpTo(S, n) == UNION {[1..k -> S] : k \in 0..n}

RECURSIVE Rep(_, _)
Rep(u, n) == IF n = 0 THEN <<>> ELSE u \o Rep(u, n - 1)

\* code strings long enough for the complexity clamp to act
RepCodes ==
    {Rep(<<"for", " ">>, n) \o Rep(<<k, "\n">>, m) :
        n \in 0..MaxRepeat, m \in 0..MaxRepeat,
        k \in {"def", "public", "int", "function"}}

Codes == SeqsUpTo(Alphabet, MaxLen) \cup RepCodes

\* the selectbox options of app.py:44-47
Languages == {"Python", "Java", "C++", "JavaScript"}

\* language tags a direct caller of the core may pass
AnyLanguage == Languages \cup {"Rust"}

\* re.findall(r"\b(k1|k2|...)\b", code): the positions of whole-word matches
WholeWordMatches(code, kws) ==
    {i \in 1..Len(code) :
        /\ code[i] \in kws
        /\ (i = 1 \/ code[i - 1] \notin WordAtoms)
        /\ (i = Len(code) \/ code[i + 1] \notin WordAtoms)}

\* code.count(ch)
Count(code, ch) == Cardinality({i \in 1..Len(code) : code[i] = ch})

\* str.strip(): leading and trailing whitespace removed
RECURSIVE LStrip(_)
LStrip(code) ==
    IF code # <<>> /\ Head(code) \in Whitespace THEN LStrip(Tail(code)) ELSE code

RECURSIVE RStrip(_)
RStrip(code) ==
    IF code # <<>> /\ code[Len(code)] \in Whitespace
    THEN RStrip(SubSeq(code, 1, Len(code) - 1))
    ELSE code

Strip(code) == RStrip(LStrip(code))

\* ------------------------------------------- multi_language_features.py

FunctionKeywords(language) ==
    CASE language = "Python" -> {"def"}
      [] language = "Java" -> {"public", "private", "protected"}
      [] language = "C++" -> {"int", "void", "float", "double", "string"}
      [] language = "JavaScript" -> {"function"}
      [] OTHER -> {}

extract_unclamped(code, language) ==
    LET num_loops == Cardinality(WholeWordMatches(code, {"for", "while"}))
        num_functions ==
            Cardinality(WholeWordMatches(code, FunctionKeywords(language)))
    IN  [num_lines |-> Count(code, "\n") + 1,
         num_loops |-> num_loops,
         num_functions |-> num_functions,
         has_try_except |->
             WholeWordMatches(code, {"try", "catch", "except"}) # {},
         nested_depth |-> Count(code, "{"),
         avg_var_name_length |-> 5,
         complexity_score |-> num_loops + num_functions]

extract_general_features(code, language) ==
    LET num_loops == Cardinality(WholeWordMatches(code, {"for", "while"}))
        num_functions ==
            Cardinality(WholeWordMatches(code, FunctionKeywords(language)))
        complexity == num_loops + num_functions
    IN  [num_lines |-> Count(code, "\n") + 1,
         num_loops |-> num_loops,
         num_functions |-> num_functions,
         has_try_except |->
             WholeWordMatches(code, {"try", "catch", "except"}) # {},
         nested_depth |-> Count(code, "{"),
         avg_var_name_length |-> 5,
         complexity_score |-> Min(10, complexity)]

\* ------------------------------------------------ direct calls of the core

NoCall == [fn |-> "none"]

Absent == [kind |-> "absent"]

InitSession ==
    /\ analysis_data = None
    /\ history = <<>>
    /\ loads = 0
    /\ requests = 0
    /\ last = None

InitCore ==
    /\ InitSession
    /\ call = NoCall

SessionUnchanged == UNCHANGED <<analysis_data, history, requests, last>>

CallExtract ==
    /\ call = NoCall
    /\ \E code \in Codes, language \in AnyLanguage :
          call' = [fn |-> "extract_general_features",
                   arg |-> [code |-> code, language |-> language],
                   ret |-> extract_general_features(code, language)]
    /\ SessionUnchanged
    /\ UNCHANGED <<artifact, loads>>

InitExtract ==
    /\ InitCore
    /\ artifact = Absent

SpecExtract == InitExtract /\ [][CallExtract]_vars

\* C6: for every code string and every language tag (also one outside the four
\* supported, which counts no functions), the record extract_general_features
\* returns has complexity_score = min(10, num_loops + num_functions), and
\* 0 <= complexity_score <= 10.
C6_ComplexityClamped ==
    call.fn = "extract_general_features" =>
        /\ call.ret.complexity_score
             = (IF call.ret.num_loops + call.ret.num_functions < 10
                THEN call.ret.num_loops + call.ret.num_functions
                ELSE 10)
        /\ call.ret.complexity_score \in 0..10
        /\ (call.arg.language \notin Languages => call.ret.num_functions = 0)

\* the clamp acts: more than ten loops and functions together
C6_Witness ==
    /\ call.fn = "extract_general_features"
    /\ call.ret.num_loops + call.ret.num_functions > 10
    /\ call.ret.num_functions > 0
    /\ call.ret.complexity_score = 10

\* the tag is outside the four supported ones and the code has keywords that
\* another language would count
C6_WitnessOtherTag ==
    /\ call.fn = "extract_general_features"
    /\ call.arg.language \notin Languages
    /\ WholeWordMatches(call.arg.code, {"def", "function"}) # {}

\* ---------------------------------------------------------------- model.py

\* the spec's label table (section 4.2), which differs from BUG_LABELS at 0
BUG_LABELS_as_specified ==
    [i \in 0..3 |->
        CASE i = 0 -> "No Bug"
          [] i = 1 -> "Performance Issue"
          [] i = 2 -> "Logical Error"
          [] i = 3 -> "Code Smell"]

BUG_LABELS ==
    [i \in 0..3 |->
        CASE i = 0 -> "No Bug (Clean Code)"
          [] i = 1 -> "Performance Issue"
          [] i = 2 -> "Logical Error"
          [] i = 3 -> "Code Smell"]

\* the source's strings without the emoji that starts the first of each list
BUG_SUGGESTIONS ==
    [i \in 0..3 |->
        CASE i = 0 ->
               <<"Code looks clean! No major issues detected.",
                 "Consider adding docstrings for documentation.">>
          [] i = 1 ->
               <<"Optimize loops - avoid unnecessary iterations.",
                 "Use list comprehensions instead of manual loops where possible.",
                 "Consider using built-in functions (map, filter, sum) for better performance.",
                 "Reduce nested depth to improve readability and speed.">>
          [] i = 2 ->
               <<"Check your conditional logic - edge cases may not be handled.",
                 "Add input validation to prevent unexpected behavior.",
                 "Add try-except blocks to catch runtime errors.",
                 "Test with boundary values (0, negative numbers, empty inputs).">>
          [] i = 3 ->
               <<"Use descriptive variable names instead of single letters.",
                 "Break large functions into smaller, reusable ones.",
                 "Remove unused variables and imports.",
                 "Follow PEP 8 naming conventions.">>]

\* the classes of the trained classifier
Classes == 0..3

\* probability vectors predict_proba may return, class 0 first
Probas ==
    {<<7000, 1000, 1500, 500>>, <<2500, 2500, 2500, 2500>>,
     <<1000, 2000, 3000, 4000>>, <<3335, 3325, 3340, 0>>}

\* A trained classifier is opaque: this one answers every feature vector with
\* the same class and the same probability vector, and the two need not agree.
Classifiers ==
    {[kind |-> "model", prediction |-> c, proba |-> p] : c \in Classes, p \in Probas}

\* an artifact joblib.load cannot read
Corrupt == [kind |-> "corrupt"]

Artifacts == {Absent, Corrupt} \cup Classifiers

\* os.path.exists(MODEL_PATH)
ModelPathExists == artifact # Absent

load_model ==
    IF ~ModelPathExists
    THEN Raise("FileNotFoundError", TRUE,
               "Trained model not found! Run 'python train_model.py' first.")
    ELSE IF artifact = Corrupt
         THEN Raise("UnpicklingError", TRUE, "invalid load key")
         ELSE Return(artifact)

\* joblib.load is reached exactly when the path exists
LoadsAfterPredict == IF ModelPathExists THEN loads + 1 ELSE loads

\* np.array([[features[f] for f in feature_order]]): a bool becomes 0 or 1
FeatureVector(features) ==
    <<features.num_lines, features.num_functions, features.num_loops,
      features.nested_depth, IF features.has_try_except THEN 1 ELSE 0,
      features.avg_var_name_length, features.complexity_score>>

model_predict(model, feature_vector) == model.prediction

model_predict_proba(model, feature_vector) == model.proba

SeqMax(s) == CHOOSE v \in {s[i] : i \in 1..Len(s)} : \A i \in 1..Len(s) : s[i] <= v

\* round(float(p) * 100, 1), from basis points to tenths of a percent, with
\* ties going to the even neighbour
Round1(bp) ==
    LET q == bp \div 10
        r == bp % 10
    IN  IF r < 5 THEN q
        ELSE IF r > 5 THEN q + 1
        ELSE IF q % 2 = 0 THEN q ELSE q + 1

predict_bug(features) ==
    LET loaded == load_model
    IN  IF loaded.raised THEN loaded
        ELSE
          LET model == loaded.value
              feature_vector == FeatureVector(features)
              prediction == model_predict(model, feature_vector)
              confidence_scores == model_predict_proba(model, feature_vector)
              confidence == Round1(SeqMax(confidence_scores))
          IN  Return(
                [bug_type |-> prediction,
                 label |-> IF prediction \in DOMAIN BUG_LABELS
                           THEN BUG_LABELS[prediction] ELSE "Unknown",
                 confidence |-> confidence,
                 suggestions |-> IF prediction \in DOMAIN BUG_SUGGESTIONS
                                 THEN BUG_SUGGESTIONS[prediction] ELSE <<>>,
                 all_probabilities |->
                     [l \in {BUG_LABELS[i - 1] : i \in 1..Len(confidence_scores)} |->
                         Round1(confidence_scores[
                             CHOOSE i \in 1..Len(confidence_scores) :
                                 BUG_LABELS[i - 1] = l])]])

\* feature records a direct caller passes to predict_bug
SomeFeatures ==
    {extract_general_features(code, language) :
        code \in SeqsUpTo(Alphabet, 1) \cup {Rep(<<"for", " ">>, MaxRepeat + 5)},
        language \in Languages}

CallPredict ==
    /\ call = NoCall
    /\ \E features \in SomeFeatures :
          call' = [fn |-> "predict_bug",
                   arg |-> features,
                   ret |-> predict_bug(features)]
    /\ loads' = LoadsAfterPredict
    /\ SessionUnchanged
    /\ UNCHANGED artifact

InitPredict ==
    /\ InitCore
    /\ artifact \in Artifacts

SpecPredict == InitPredict /\ [][CallPredict]_vars

PredictSucceeded == call.fn = "predict_bug" /\ ~call.ret.raised

\* C8 (as claimed): whenever predict_bug succeeds, bug_type is a class of
\* highest probability and confidence is the percentage of that same class:
\* all_probabilities[label of bug_type] = confidence.
C8_ConfidenceOfPredictedClass ==
    PredictSucceeded =>
        LET r == call.ret.value
            proba == artifact.proba
        IN  /\ \A c \in Classes : proba[c + 1] <= proba[r.bug_type + 1]
            /\ r.all_probabilities[BUG_LABELS[r.bug_type]] = r.confidence

\* C9 (as claimed): the label of every bug_type in {0,1,2,3} is the string of
\* the table {0: "No Bug", 1: "Performance Issue", 2: "Logical Error",
\* 3: "Code Smell"}.
C9_LabelAsSpecified ==
    PredictSucceeded /\ call.ret.value.bug_type \in 0..3 =>
        call.ret.value.label = BUG_LABELS_as_specified[call.ret.value.bug_type]

\* C9 (amended): the label of every bug_type in {0,1,2,3} is the string of the
\* table {0: "No Bug (Clean Code)", 1: "Performance Issue", 2: "Logical Error",
\* 3: "Code Smell"}, and the suggestions are the fixed ordered list of that
\* bug_type, of between 2 and 4 strings.
C9_LabelAndSuggestions ==
    PredictSucceeded /\ call.ret.value.bug_type \in 0..3 =>
        LET r == call.ret.value
        IN  /\ r.label = (CASE r.bug_type = 0 -> "No Bug (Clean Code)"
                            [] r.bug_type = 1 -> "Performance Issue"
                            [] r.bug_type = 2 -> "Logical Error"
                            [] r.bug_type = 3 -> "Code Smell")
            /\ r.suggestions = BUG_SUGGESTIONS[r.bug_type]
            /\ Len(r.suggestions) \in 2..4
            /\ \A i \in 1..Len(r.suggestions) : r.suggestions[i] \in STRING

\* predict_bug succeeded with bug_type 0, the entry the two tables differ at
C9_Witness ==
    /\ PredictSucceeded
    /\ call.ret.value.bug_type = 0
    /\ Len(call.ret.value.suggestions) = 2

\* ------------------------------------------------- snippets under Python

\* What the Python interpreter does with a snippet is not decided by its atoms:
\* a snippet carries the outcome of ast.parse(code) and of exec(code, globals).

ParsedOk == Return("ast.Module")

ParseSyntaxError ==
    [raised |-> TRUE, cls |-> "SyntaxError", isException |-> TRUE,
     msg |-> "invalid syntax", lineno |-> 1]

\* a deeply nested expression: ast.parse raises RecursionError, not SyntaxError
ParseRecursionError ==
    Raise("RecursionError", TRUE,
          "maximum recursion depth exceeded during ast construction")

ExecutedOk == Return(None)

\* the behaviours (parse, exec) a non-blank snippet may have
PyBehaviours ==
    {[parse |-> ParsedOk, exec |-> ExecutedOk],
     [parse |-> ParsedOk,
      exec |-> Raise("ZeroDivisionError", TRUE, "division by zero")],
     \* compiles as an AST, fails in the compiler: return outside a function
     [parse |-> ParsedOk,
      exec |-> Raise("SyntaxError", TRUE,
                     "'return' outside function (<string>, line 1)")],
     \* raise Exception.__mro__[1]("boom"): BaseException is reachable from
     \* the allowed builtins and does not derive from Exception
     [parse |-> ParsedOk, exec |-> Raise("BaseException", FALSE, "boom")],
     [parse |-> ParseSyntaxError,
      exec |-> Raise("SyntaxError", TRUE, "invalid syntax (<string>, line 1)")],
     [parse |-> ParseRecursionError,
      exec |-> Raise("RecursionError", TRUE,
                     "maximum recursion depth exceeded during compilation")]}

\* a blank snippet parses and runs
Snippets(codes) ==
    {[code |-> c, parse |-> b.parse, exec |-> b.exec] :
        c \in {d \in codes : Strip(d) # <<>>}, b \in PyBehaviours}
    \cup {[code |-> c, parse |-> ParsedOk, exec |-> ExecutedOk] :
            c \in {d \in codes : Strip(d) = <<>>}}

check_syntax(snippet) ==
    IF ~snippet.parse.raised
    THEN Return([valid |-> TRUE, error |-> None])
    ELSE IF snippet.parse.cls = "SyntaxError"
         THEN Return([valid |-> FALSE,
                      error |-> "Syntax Error at line "
                                  \o ToString(snippet.parse.lineno)
                                  \o ": " \o snippet.parse.msg])
         ELSE snippet.parse

run_code_safely(snippet) ==
    IF ~snippet.exec.raised
    THEN Return([success |-> TRUE, error |-> None])
    ELSE IF snippet.exec.isException
         THEN Return([success |-> FALSE,
                      error |-> snippet.exec.cls \o ": " \o snippet.exec.msg])
         ELSE snippet.exec

CallRunSafely ==
    /\ call = NoCall
    /\ \E snippet \in Snippets(Codes) :
          call' = [fn |-> "run_code_safely",
                   arg |-> snippet,
                   ret |-> run_code_safely(snippet)]
    /\ SessionUnchanged
    /\ UNCHANGED <<artifact, loads>>

CallCheckSyntax ==
    /\ call = NoCall
    /\ \E snippet \in Snippets(Codes) :
          call' = [fn |-> "check_syntax",
                   arg |-> snippet,
                   ret |-> check_syntax(snippet)]
    /\ SessionUnchanged
    /\ UNCHANGED <<artifact, loads>>

NextPython == CallRunSafely \/ CallCheckSyntax

InitPython ==
    /\ InitCore
    /\ artifact = Absent

SpecPython == InitPython /\ [][NextPython]_vars

\* C3 (as claimed): run_code_safely never lets an exception escape: when the
\* snippet raises, whatever the class, it returns success=false and
\* error = "<class name>: <message>"; when it does not, success=true, error=null.
C3_NothingEscapes ==
    call.fn = "run_code_safely" =>
        /\ ~call.ret.raised
        /\ call.ret.value =
             (IF call.arg.exec.raised
              THEN [success |-> FALSE,
                    error |-> call.arg.exec.cls \o ": " \o call.arg.exec.msg]
              ELSE [success |-> TRUE, error |-> None])

\* ------------------------------------------------------------------ app.py

\* one call made by the handler: the function, its argument, its outcome
Called(fn, arg, res) == [fn |-> fn, arg |-> arg, res |-> res]

\* a step of the handler: what it yields and the calls it made
Step(res, calls) == [res |-> res, calls |-> calls]

\* app.py:66-70 without the language test
SyntaxStepAlways(snippet, language) ==
    Step(check_syntax(snippet),
         <<Called("check_syntax", snippet.code, check_syntax(snippet))>>)

SyntaxStep(snippet, language) ==
    IF language = "Python"
    THEN Step(check_syntax(snippet),
              <<Called("check_syntax", snippet.code, check_syntax(snippet))>>)
    ELSE Step(Return([valid |-> TRUE]), <<>>)

FeaturesStep(snippet, language) ==
    Step(Return(extract_general_features(snippet.code, language)),
         <<Called("extract_general_features", snippet.code,
                  Return(extract_general_features(snippet.code, language)))>>)

RuntimeStep(snippet, language) ==
    IF language = "Python"
    THEN Step(run_code_safely(snippet),
              <<Called("run_code_safely", snippet.code, run_code_safely(snippet))>>)
    ELSE Step(Return([success |-> TRUE,
                      error |-> "Execution skipped for " \o language]),
              <<>>)

\* app.py:85-88 without the try: the exception of predict_bug propagates
PredictStepUncaught(features) ==
    Step(predict_bug(features),
         <<Called("predict_bug", features, predict_bug(features))>>)

\* try: prediction = predict_bug(features); except: prediction = None
PredictStep(features) ==
    Step(IF predict_bug(features).raised THEN Return(None) ELSE predict_bug(features),
         <<Called("predict_bug", features, predict_bug(features))>>)

\* a score that takes ten points for each point of complexity
ScoreTens(features) == Max(0, 100 - (features.complexity_score * 10))

Score(features) == Max(0, 100 - (features.complexity_score * 8))

\* datetime.now(), read as the number of the request
Now == requests + 1

\* app.py:103 alone: the record becomes current and is not appended
StoreCurrentOnly(result) ==
    /\ analysis_data' = result
    /\ history' = history

\* app.py:103-104
Store(result) ==
    /\ analysis_data' = result
    /\ history' = Append(history, result)

\* what the click leaves behind for the properties to read
Last(snippet, language, calls, outcome) ==
    [code |-> snippet.code, language |-> language, calls |-> calls,
     outcome |-> outcome]

\* an exception leaves the handler: the script run ends, nothing is stored
Aborted(snippet, language, calls) ==
    /\ last' = Last(snippet, language, calls, "aborted")
    /\ UNCHANGED <<analysis_data, history>>

\* the click on "Analyze Code" (app.py:60-106)
Analyze(snippet, language) ==
    /\ requests < MaxRequests
    /\ requests' = requests + 1
    /\ UNCHANGED <<artifact, call>>
    /\ IF Strip(snippet.code) = <<>>
       THEN /\ last' = Last(snippet, language, <<>>, "rejected")
            /\ UNCHANGED <<analysis_data, history, loads>>
       ELSE
         LET syn == SyntaxStep(snippet, language)
             fea == FeaturesStep(snippet, language)
             run == RuntimeStep(snippet, language)
         IN  IF syn.res.raised
             THEN /\ Aborted(snippet, language, syn.calls)
                  /\ UNCHANGED loads
             ELSE IF run.res.raised
             THEN /\ Aborted(snippet, language,
                             syn.calls \o fea.calls \o run.calls)
                  /\ UNCHANGED loads
             ELSE
               LET features == fea.res.value
                   pre == PredictStep(features)
                   calls == syn.calls \o fea.calls \o run.calls \o pre.calls
               \* PredictStep yields no exception: its except clause is bare
               IN  /\ loads' = LoadsAfterPredict
                   /\ IF pre.res.raised
                      THEN Aborted(snippet, language, calls)
                      ELSE /\ Store([time |-> Now,
                                     language |-> language,
                                     syntax |-> syn.res.value,
                                     runtime |-> run.res.value,
                                     features |-> features,
                                     prediction |-> pre.res.value,
                                     score |-> Score(features)])
                           /\ last' = Last(snippet, language, calls, "completed")

\* the code strings pasted in a session: empty, whitespace only, one loop,
\* a function with a try, and enough loops for the complexity clamp
SessionCodes ==
    {<<>>, <<" ", "\n">>, <<"for", " ", "x">>,
     <<"def", " ", "x", "{", "\n", "try">>, Rep(<<"for", " ">>, 11)}

SessionSnippets == Snippets(SessionCodes)

\* what a session may find at MODEL_PATH
SessionArtifacts ==
    {Absent, Corrupt,
     [kind |-> "model", prediction |-> 2, proba |-> <<7000, 1000, 1500, 500>>],
     [kind |-> "model", prediction |-> 3, proba |-> <<1000, 2000, 3000, 4000>>]}

Init ==
    /\ InitSession
    /\ call = NoCall
    /\ artifact \in SessionArtifacts

Next == \E snippet \in SessionSnippets, language \in Languages :
            Analyze(snippet, language)

Spec == Init /\ [][Next]_vars

\* ---------------------------------------------------- session properties

\* the calls of fn made by the last click
LastCalls(fn) ==
    IF last = None THEN {}
    ELSE {last.calls[i] : i \in {j \in DOMAIN last.calls : last.calls[j].fn = fn}}

\* predict_bug was called by the last click and raised
PredictFailed == \E c \in LastCalls("predict_bug") : c.res.raised

\* C1: whenever predict_bug fails in a request with non-blank code, the analysis
\* completes: its record has prediction = null, carries the syntax result, the
\* runtime result, the features and the score computed for that request, is the
\* current analysis and is the last record of the history.
C1_PredictFailureDegrades ==
    PredictFailed =>
        /\ last.outcome = "completed"
        /\ analysis_data # None
        /\ analysis_data.prediction = None
        /\ analysis_data.time = requests
        /\ analysis_data.language = last.language
        /\ history # <<>>
        /\ history[Len(history)] = analysis_data
        /\ \A c \in LastCalls("check_syntax") : analysis_data.syntax = c.res.value
        /\ \A c \in LastCalls("run_code_safely") : analysis_data.runtime = c.res.value
        /\ \A c \in LastCalls("extract_general_features") :
              analysis_data.features = c.res.value
        /\ "valid" \in DOMAIN analysis_data.syntax
        /\ "success" \in DOMAIN analysis_data.runtime
        /\ analysis_data.score = 100 - 8 * analysis_data.features.complexity_score

\* the artifact is missing, the Python snippet failed at run time, and the
\* record keeps that runtime result
C1_Witness ==
    /\ PredictFailed
    /\ artifact = Absent
    /\ last.language = "Python"
    /\ analysis_data # None
    /\ analysis_data.prediction = None
    /\ ~analysis_data.runtime.success
    /\ Len(history) = 2

\* C2 (as claimed): over any sequence of requests the classifier is loaded from
\* disk at most once.
C2_LoadedAtMostOnce == loads <= 1

\* C4 (as claimed): a click with non-blank code appends exactly one record and
\* leaves the earlier records as they were; a click with blank code leaves the
\* history and the current record unchanged.
C4_AppendOnly ==
    [][requests' = requests + 1 =>
          IF Strip(last'.code) = <<>>
          THEN history' = history /\ analysis_data' = analysis_data
          ELSE /\ Len(history') = Len(history) + 1
               /\ SubSeq(history', 1, Len(history)) = history]_vars

C7_ScoreOfRecord ==
    \A i \in DOMAIN history :
        LET raw == 100 - 8 * history[i].features.complexity_score
        IN  /\ history[i].score = (IF raw > 0 THEN raw ELSE 0)
            /\ history[i].score \in 0..100

\* a record of the greatest complexity beside one of complexity 0
C7_Witness ==
    /\ Len(history) = 2
    /\ history[1].features.complexity_score = 10
    /\ history[1].score = 20
    /\ history[2].features.complexity_score = 0
    /\ history[2].score = 100

\* C10: the current analysis record is null exactly when the history is empty,
\* and otherwise it is the last record of the history.
C10_CurrentIsLast ==
    /\ (analysis_data = None) <=> (history = <<>>)
    /\ history # <<>> => analysis_data = history[Len(history)]

\* a completed analysis followed by a click that stored nothing
C10_Witness ==
    /\ Len(history) = 1
    /\ requests = 2
    /\ last.outcome \in {"rejected", "aborted"}
    /\ analysis_data = history[1]

====
